---- MODULE Spec2Model ----
(***************************************************************************)
(* A model of the soil-server device fleet manager (src/main.py):          *)
(*   - Devices, the registry with its primary set and three indices,       *)
(*   - Device, one connection (socket, buffer, connected flag),            *)
(*   - BluetoothDiscovery, the discovery and connection attempts,          *)
(*   - DeviceServer, the foreground loop and the background discovery      *)
(*     thread joined by the new_devices queue.                             *)
(* Python objects are identified by small integers (object identity);      *)
(* byte strings and text are sequences of integers (byte values, code      *)
(* points).                                                                *)
(***************************************************************************)
EXTENDS Integers, Sequences, FiniteSets, TLC

VARIABLES
    pc_fg,                  \* position of the main thread in DeviceServer.loop
    pc_bg,                  \* position of discovery_thread in threaded_find_and_connect
    should_be_discovering,  \* DeviceServer.should_be_discovering
    new_devices,            \* DeviceServer.new_devices, the queue.Queue (FIFO of Device ids)
    devices,                \* Devices.devices, the primary set
    by_socket,              \* Devices.by_socket: socket -> Device
    by_address,             \* Devices.by_address: address -> Device
    by_name,                \* Devices.by_name: name -> set of Devices
    device,                 \* the Device objects created so far: id -> fields
    socket_closes,          \* per socket: how many times socket.close() was called
    soil_addresses_and_names, \* create_connections: the candidates not yet tried
    conn_new_devices,       \* create_connections: the local list new_devices
    retry,                  \* create_connections: the inner loop variable
    polled,                 \* the keys of the dict `data` the last Devices.receive_data returned, until the main thread's next step
    stream,                 \* framing: the bytes the peer has sent that are not yet read
    fed,                    \* framing: the bytes given to append_socket_data so far
    buffer,                 \* framing: Device.buffer
    returned,               \* framing: the lines append_socket_data has returned, over all calls
    append_raised,          \* framing: whether a call of append_socket_data raised
    devices_best_startup_estimates, \* DeviceServer.devices_best_startup_estimates
    samples,                \* per controller, the estimates passed to get_device_best_startup_estimate
    call,                   \* the last call of parse_device_line: its arguments and what it returned
    batch,                  \* parse_data: the dict `data` of one pass and, once parsed, what became of it
    disc_pc,                \* discovery alone: the position in BluetoothDiscovery.find_and_connect
    paired_devices,         \* discovery alone: what get_paired_devices returns
    call_ignore_addresses,  \* discovery alone: the argument ignore_addresses
    attempts,               \* discovery alone: the calls of Device.create so far, with their results
    recv_pc,                \* one Device: the position in Device.receive_data
    transport,              \* one Device: the state of the peer and the bytes it has sent
    recv_new_data,          \* one Device: the local new_data of get_new_data
    recv_log,               \* one Device: what each socket.recv of this call did
    received                \* one Device: what the last Device.receive_data returned

server_vars == <<pc_fg, pc_bg, should_be_discovering, new_devices, devices,
                 by_socket, by_address, by_name, device, socket_closes,
                 soil_addresses_and_names, conn_new_devices,
                 retry, polled>>

framer_vars == <<stream, fed, buffer, returned, append_raised>>

clock_vars == <<devices_best_startup_estimates, samples, call>>

batch_vars == <<batch>>

discovery_vars == <<disc_pc, paired_devices, call_ignore_addresses, attempts>>

read_vars == <<recv_pc, transport, recv_new_data, recv_log, received>>

unit_vars == <<batch_vars, discovery_vars, read_vars>>

vars == <<server_vars, framer_vars, clock_vars, unit_vars>>

----------------------------------------------------------------------------
(* Bounds of the model. *)

\* Device.create succeeds at most this many times in a run
MaxDevices == 3
\* the retries argument of DeviceServer (1 by default, 5 from main)
Retries == 2

----------------------------------------------------------------------------
(* Bytes, text and names. *)

CR == 13
LF == 10

\* Python None where a byte string is expected (Device.buffer after close)
NoneBuffer == <<-1>>

\* "SOIL-1", "SOIL-2" and "OTHER" as code points
NameSoil1 == <<83, 79, 73, 76, 45, 49>>
NameSoil2 == <<83, 79, 73, 76, 45, 50>>
NameOther == <<79, 84, 72, 69, 82>>

IsDigit(c) == c >= 48 /\ c <= 57

\* Devices.BLUETOOTH_PATTERN, re.compile(r'^SOIL-\d+$'), used with .match():
\* the literal SOIL-, one or more digits, then the end of the string or a
\* single newline that ends the string ($ without re.MULTILINE).
BLUETOOTH_PATTERN_match(name) ==
    LET n == IF Len(name) > 0 /\ name[Len(name)] = LF THEN Len(name) - 1 ELSE Len(name)
    IN  /\ n >= 6
        /\ SubSeq(name, 1, 5) = <<83, 79, 73, 76, 45>>
        /\ \A i \in 6..n : IsDigit(name[i])

\* What `paired-devices` lists (Bluetoothctl.get_paired_devices), in listing order
PairedDevices ==
    << [mac_address |-> "AA:1", name |-> NameSoil1],
       [mac_address |-> "BB:2", name |-> NameOther],
       [mac_address |-> "CC:3", name |-> NameSoil2] >>

----------------------------------------------------------------------------
(* Helpers for Python dicts, sets and lists. *)

EmptyDict == [k \in {} |-> 0]
DictPut(f, k, v) == [x \in (DOMAIN f) \cup {k} |-> IF x = k THEN v ELSE f[x]]
DictDel(f, k) == [x \in (DOMAIN f) \ {k} |-> f[x]]

Range(s) == {s[i] : i \in DOMAIN s}

\* The elements of a set, one after another
RECURSIVE SeqOf(_)
SeqOf(S) ==
    IF S = {} THEN <<>>
    ELSE LET x == CHOOSE y \in S : TRUE IN <<x>> \o SeqOf(S \ {x})

\* The orders in which a Python set may be iterated
Orders(S) == {s \in [1..Cardinality(S) -> S] : \A i, j \in 1..Cardinality(S) : s[i] = s[j] => i = j}

----------------------------------------------------------------------------
(* Stream framing: Device.append_socket_data. *)

\* bytes.split(b'\r\n'): scan left to right, cut at every CR LF
RECURSIVE SplitFrom(_, _, _)
SplitFrom(s, i, cur) ==
    IF i > Len(s) THEN <<cur>>
    ELSE IF i < Len(s) /\ s[i] = CR /\ s[i + 1] = LF
         THEN <<cur>> \o SplitFrom(s, i + 2, <<>>)
         ELSE SplitFrom(s, i + 1, Append(cur, s[i]))

bytes_split(s) == SplitFrom(s, 1, <<>>)

\* bytes.decode(), UTF-8 strict, for byte values below 224: a byte below 128
\* is one code point, a lead byte 194..223 followed by a continuation byte
\* 128..191 is one code point, anything else is a UnicodeDecodeError.
IsContinuation(b) == b >= 128 /\ b <= 191
IsLead2(b) == b >= 194 /\ b <= 223

RECURSIVE Utf8Valid(_, _)
Utf8Valid(b, i) ==
    IF i > Len(b) THEN TRUE
    ELSE IF b[i] < 128 THEN Utf8Valid(b, i + 1)
    ELSE IF IsLead2(b[i]) /\ i < Len(b) /\ IsContinuation(b[i + 1]) THEN Utf8Valid(b, i + 2)
    ELSE FALSE

RECURSIVE Utf8Text(_, _)
Utf8Text(b, i) ==
    IF i > Len(b) THEN <<>>
    ELSE IF b[i] < 128 THEN <<b[i]>> \o Utf8Text(b, i + 1)
    ELSE <<(b[i] - 192) * 64 + (b[i + 1] - 128)>> \o Utf8Text(b, i + 2)

bytes_decode(b) ==
    IF Utf8Valid(b, 1) THEN [raised |-> FALSE, text |-> Utf8Text(b, 1)]
    ELSE [raised |-> TRUE, text |-> <<>>]

\* Device.append_socket_data on a Device whose buffer is self_buffer: the new
\* buffer, the lines returned and whether the call raised.  The buffer is
\* assigned before the fragments are decoded, so it is updated even when
\* decoding raises; `buffer += new_data` raises TypeError on None.
append_socket_data(self_buffer, new_data) ==
    IF self_buffer = NoneBuffer
    THEN [buffer |-> self_buffer, lines |-> <<>>, raised |-> TRUE]
    ELSE LET parts == bytes_split(self_buffer \o new_data)
             n == Len(parts) - 1
             decoded == [i \in 1..n |-> bytes_decode(parts[i])]
         IN  IF \E i \in 1..n : decoded[i].raised
             THEN [buffer |-> parts[n + 1], lines |-> <<>>, raised |-> TRUE]
             ELSE [buffer |-> parts[n + 1],
                   lines |-> [i \in 1..n |-> decoded[i].text],
                   raised |-> FALSE]

----------------------------------------------------------------------------
(* Device and Devices.  The operators work on a record w of the objects a   *)
(* call may change: the registry, the Device objects, the sockets, the dict *)
(* a receive pass builds, and whether an exception is propagating.          *)

\* Device.__init__ as called by Device.create: a new socket, an empty buffer
NewDevice(socket, address, name) ==
    [socket |-> socket, address |-> address, name |-> name,
     buffer |-> <<>>, connected |-> TRUE]

\* Device.close
Device_close(w, d) ==
    [w EXCEPT !.socket_closes[w.device[d].socket] = @ + 1,
              !.device[d].connected = FALSE,
              !.device[d].buffer = NoneBuffer]

\* What one call of Device.receive_data meets on the transport: the bytes
\* get_new_data drained and, when there were none, what getpeername does.
PeerStatus == {"connected", "disconnected", "error"}
TransportChunks == {<<97, CR, LF>>, <<195, CR, LF>>}
Outcomes ==
    {[data |-> c, peer |-> "connected"] : c \in TransportChunks}
    \cup {[data |-> <<>>, peer |-> p] : p \in PeerStatus}

\* every failure of getpeername taken for a disconnect
Device_close_if_closed_on_any_error(w, d, peer) ==
    IF peer = "connected" THEN w ELSE Device_close(w, d)

\* Device.close_if_closed with is_socket_still_connected
Device_close_if_closed(w, d, peer) ==
    IF peer = "connected" THEN w
    ELSE IF peer = "disconnected" THEN Device_close(w, d)
    ELSE [w EXCEPT !.raised = TRUE]

\* Device.receive_data; the lines returned go to w.data[d]
Device_receive_data(w, d, out) ==
    IF out.data = <<>>
    THEN LET w1 == Device_close_if_closed(w, d, out.peer)
         IN  IF w1.raised THEN w1 ELSE [w1 EXCEPT !.data = DictPut(@, d, <<>>)]
    ELSE LET r == append_socket_data(w.device[d].buffer, out.data)
             w1 == [w EXCEPT !.device[d].buffer = r.buffer]
         IN  IF r.raised THEN [w1 EXCEPT !.raised = TRUE]
             ELSE [w1 EXCEPT !.data = DictPut(@, d, r.lines)]

\* the indices without the primary set
Devices_add_indices_only(w, d) ==
    LET dev == w.device[d]
        named == IF dev.name \in DOMAIN w.by_name THEN w.by_name[dev.name] ELSE {}
    IN  [w EXCEPT !.by_socket = DictPut(@, dev.socket, d),
                  !.by_address = DictPut(@, dev.address, d),
                  !.by_name = DictPut(@, dev.name, named \cup {d})]

\* Devices.add
Devices_add(w, d) ==
    LET dev == w.device[d]
        named == IF dev.name \in DOMAIN w.by_name THEN w.by_name[dev.name] ELSE {}
    IN  [w EXCEPT !.devices = @ \cup {d},
                  !.by_socket = DictPut(@, dev.socket, d),
                  !.by_address = DictPut(@, dev.address, d),
                  !.by_name = DictPut(@, dev.name, named \cup {d})]

\* Devices.remove, statement by statement: each of the four may raise
\* KeyError, leaving the effects of the statements before it.
Devices_remove(w, d) ==
    LET dev == w.device[d] IN
    IF d \notin w.devices THEN [w EXCEPT !.raised = TRUE]
    ELSE LET w1 == [w EXCEPT !.devices = @ \ {d}] IN
    IF dev.socket \notin DOMAIN w1.by_socket THEN [w1 EXCEPT !.raised = TRUE]
    ELSE LET w2 == [w1 EXCEPT !.by_socket = DictDel(@, dev.socket)] IN
    IF dev.address \notin DOMAIN w2.by_address THEN [w2 EXCEPT !.raised = TRUE]
    ELSE LET w3 == [w2 EXCEPT !.by_address = DictDel(@, dev.address)] IN
    IF dev.name \notin DOMAIN w3.by_name \/ d \notin w3.by_name[dev.name]
    THEN [w3 EXCEPT !.raised = TRUE]
    ELSE [w3 EXCEPT !.by_name[dev.name] = @ \ {d}]

\* close without the test of device.connected
Devices_close_unconditional(w, d) ==
    Devices_remove(Device_close(w, d), d)

\* Devices.close
Devices_close(w, d) ==
    Devices_remove(IF w.device[d].connected THEN Device_close(w, d) ELSE w, d)

\* Devices.close_all, iterating list(self.devices) in the order `order`
RECURSIVE CloseEach(_, _, _)
CloseEach(w, order, i) ==
    IF i > Len(order) \/ w.raised THEN w
    ELSE CloseEach(Devices_close(w, order[i]), order, i + 1)

Devices_close_all(w, order) == CloseEach(w, order, 1)

\* Devices.get_connected_addresses
Devices_get_connected_addresses(w) ==
    {w.device[d].address : d \in {x \in w.devices : w.device[x].connected}}

\* Devices.receive_data: the dict comprehension over the connected devices
\* in the order `order`, each meeting outs[d]; then the removal of the
\* devices no longer connected, in the order `removal`.
RECURSIVE ReceiveEach(_, _, _, _)
ReceiveEach(w, order, outs, i) ==
    IF i > Len(order) \/ w.raised THEN w
    ELSE ReceiveEach(Device_receive_data(w, order[i], outs[order[i]]), order, outs, i + 1)

RECURSIVE RemoveEach(_, _, _)
RemoveEach(w, removal, i) ==
    IF i > Len(removal) \/ w.raised THEN w
    ELSE RemoveEach(Devices_remove(w, removal[i]), removal, i + 1)

Disconnected(w) == {d \in w.devices : ~w.device[d].connected}

\* the pass without its removal loop
Devices_receive_data_keeps_disconnected(w, order, outs, removal) ==
    ReceiveEach([w EXCEPT !.data = EmptyDict], order, outs, 1)

Devices_receive_data(w, order, outs, removal) ==
    LET w1 == ReceiveEach([w EXCEPT !.data = EmptyDict], order, outs, 1)
    IN  RemoveEach(w1, removal, 1)

----------------------------------------------------------------------------
(* BluetoothDiscovery: which paired devices a cycle tries to connect to. *)

RECURSIVE NameLess(_, _, _)
\* str < str on names: code point by code point, a proper prefix is smaller
NameLess(a, b, i) ==
    IF i > Len(b) THEN FALSE
    ELSE IF i > Len(a) THEN TRUE
    ELSE IF a[i] # b[i] THEN a[i] < b[i]
    ELSE NameLess(a, b, i + 1)

\* sorted(devices, key=sort_by_name): stable, by insertion from the left
RECURSIVE InsertByName(_, _)
InsertByName(sorted, x) ==
    IF sorted = <<>> THEN <<x>>
    ELSE IF NameLess(x.name, sorted[Len(sorted)].name, 1)
         THEN Append(InsertByName(SubSeq(sorted, 1, Len(sorted) - 1), x), sorted[Len(sorted)])
         ELSE Append(sorted, x)

RECURSIVE SortByName(_, _)
SortByName(listing, i) ==
    IF i = 0 THEN <<>> ELSE InsertByName(SortByName(listing, i - 1), listing[i])

\* the candidates when the ignore list is not consulted
SoilAddressesAndNames_ignores_nothing(listing, ignore) ==
    LET sorted == SortByName(listing, Len(listing))
        keep(x) == BLUETOOTH_PATTERN_match(x.name)
        kept == SelectSeq(sorted, keep)
    IN  [i \in 1..Len(kept) |-> [address |-> kept[i].mac_address, name |-> kept[i].name]]

\* get_mac_addresses_by_name_with_bctl followed by the comprehension of
\* BluetoothDiscovery.find_and_connect: the groups by name in sorted order,
\* the names matching the pattern, the addresses not ignored.
SoilAddressesAndNames(listing, ignore) ==
    LET sorted == SortByName(listing, Len(listing))
        keep(x) == BLUETOOTH_PATTERN_match(x.name) /\ x.mac_address \notin ignore
        kept == SelectSeq(sorted, keep)
    IN  [i \in 1..Len(kept) |-> [address |-> kept[i].mac_address, name |-> kept[i].name]]

\* the default of the parameter, as in a call find_and_connect()
ThreadAddArgument_default == TRUE

\* The `add` argument threaded_find_and_connect gives Devices.find_and_connect
ThreadAddArgument == FALSE

\* Devices.add_many
RECURSIVE AddEach(_, _, _)
AddEach(w, ds, i) ==
    IF i > Len(ds) THEN w ELSE AddEach(Devices_add(w, ds[i]), ds, i + 1)

Devices_add_many(w, ds) == AddEach(w, ds, 1)

\* The end of Devices.find_and_connect: `if add: self.add_many(new_devices)`
Devices_find_and_connect_end(w, add, ds) ==
    IF add THEN Devices_add_many(w, ds) ELSE w

----------------------------------------------------------------------------
(* The state of the objects as a record, and back. *)

World ==
    [devices |-> devices, by_socket |-> by_socket, by_address |-> by_address,
     by_name |-> by_name, device |-> device, socket_closes |-> socket_closes,
     data |-> EmptyDict, raised |-> FALSE]

SetWorld(w) ==
    /\ devices' = w.devices
    /\ by_socket' = w.by_socket
    /\ by_address' = w.by_address
    /\ by_name' = w.by_name
    /\ device' = w.device
    /\ socket_closes' = w.socket_closes

registry_vars == <<devices, by_socket, by_address, by_name>>
object_vars == <<device, socket_closes>>
cycle_vars == <<soil_addresses_and_names, conn_new_devices, retry>>

----------------------------------------------------------------------------
(* The server: DeviceServer.loop on the main thread and                    *)
(* DeviceServer.threaded_find_and_connect on discovery_thread.             *)

ServerInit ==
    /\ pc_fg = "start"
    /\ pc_bg = "idle"
    /\ should_be_discovering = FALSE
    /\ new_devices = <<>>
    /\ devices = {}
    /\ by_socket = EmptyDict
    /\ by_address = EmptyDict
    /\ by_name = EmptyDict
    /\ device = <<>>
    /\ socket_closes = <<>>
    /\ soil_addresses_and_names = <<>>
    /\ conn_new_devices = <<>>
    /\ retry = 0
    /\ polled = {}

\* a Device as Device.__init__ leaves it, nothing read yet
FramerIdle ==
    /\ stream = <<>>
    /\ fed = <<>>
    /\ buffer = <<>>
    /\ returned = <<>>
    /\ append_raised = FALSE

NoCall == [line |-> <<>>, received_at |-> 0, error |-> "", measurements |-> <<>>]

\* DeviceServer.__init__: no estimate yet
ClockIdle ==
    /\ devices_best_startup_estimates = EmptyDict
    /\ samples = EmptyDict
    /\ call = NoCall

\* no pass parsed yet
NoBatch == [data |-> <<>>, parsed |-> FALSE, measurements |-> <<>>, raised |-> FALSE]

BatchIdle == batch = NoBatch

\* BluetoothDiscovery.find_and_connect not called
DiscoveryIdle ==
    /\ disc_pc = "idle"
    /\ paired_devices = [is_none |-> FALSE, list |-> <<>>]
    /\ call_ignore_addresses = {}
    /\ attempts = <<>>

NoReceived == [returned |-> FALSE, raised |-> FALSE, lines |-> <<>>, peer |-> "unchecked"]

\* Device.receive_data not called
ReadIdle ==
    /\ recv_pc = "idle"
    /\ transport = [peer |-> "up", pending |-> <<>>]
    /\ recv_new_data = <<>>
    /\ recv_log = <<>>
    /\ received = NoReceived

UnitIdle == BatchIdle /\ DiscoveryIdle /\ ReadIdle

Init == ServerInit /\ FramerIdle /\ ClockIdle /\ UnitIdle

\* loop: set the flag, start the thread, enter `with self.devices`
Loop_start ==
    /\ pc_fg = "start"
    /\ should_be_discovering' = TRUE
    /\ pc_bg' = IF pc_bg = "idle" THEN "check" ELSE pc_bg
    /\ pc_fg' = "receive"
    /\ UNCHANGED <<new_devices, registry_vars, object_vars, cycle_vars, polled>>
    /\ UNCHANGED <<framer_vars, clock_vars, unit_vars>>

\* receive_and_handle_data: Devices.receive_data; an exception leaves the
\* loop.  The pass iterates the set in an arbitrary order and ends when the
\* set is exhausted or at the first call that raises: it reaches the
\* devices `reached`, and only the last call may raise.  A call changes
\* nothing but its own Device and socket, so one order stands for all the
\* orders that reach the same devices before the same raising call.
\* The lines the transport of this specification delivers do not match
\* RE_PARSE_LINE, so parse_data yields no measurement.
ReceiveAndHandleData ==
    /\ pc_fg = "receive"
    /\ LET connected == {d \in devices : device[d].connected} IN
       \E reached \in SUBSET connected : \E outs \in [reached -> Outcomes] :
         LET raising == {d \in reached : Device_receive_data(World, d, outs[d]).raised}
             order == SeqOf(reached \ raising) \o SeqOf(raising)
         IN  /\ Cardinality(raising) <= 1
             /\ reached # connected => raising # {}
             /\ \E removal \in Orders(Disconnected(ReceiveEach(World, order, outs, 1))) :
                  LET w == Devices_receive_data(World, order, outs, removal) IN
                    /\ SetWorld(w)
                    /\ polled' = IF w.raised THEN {} ELSE DOMAIN w.data
                    /\ pc_fg' = IF w.raised THEN "exit" ELSE "add"
    /\ UNCHANGED <<pc_bg, should_be_discovering, new_devices, cycle_vars>>
    /\ UNCHANGED <<framer_vars, clock_vars, unit_vars>>

\* add_new_devices, one turn of its while loop
AddNewDevices_get ==
    /\ pc_fg = "add"
    /\ new_devices # <<>>
    /\ SetWorld(Devices_add(World, Head(new_devices)))
    /\ new_devices' = Tail(new_devices)
    /\ polled' = {}
    /\ UNCHANGED <<pc_fg, pc_bg, should_be_discovering, cycle_vars>>
    /\ UNCHANGED <<framer_vars, clock_vars, unit_vars>>

\* add_new_devices returns when the queue is empty
AddNewDevices_done ==
    /\ pc_fg = "add"
    /\ new_devices = <<>>
    /\ pc_fg' = "receive"
    /\ polled' = {}
    /\ UNCHANGED <<pc_bg, should_be_discovering, new_devices, registry_vars,
                   object_vars, cycle_vars>>
    /\ UNCHANGED <<framer_vars, clock_vars, unit_vars>>

\* the server is terminated from outside: KeyboardInterrupt in the loop body
Interrupt ==
    /\ pc_fg \in {"receive", "add"}
    /\ pc_fg' = "exit"
    /\ polled' = {}
    /\ UNCHANGED <<pc_bg, should_be_discovering, new_devices, registry_vars,
                   object_vars, cycle_vars>>
    /\ UNCHANGED <<framer_vars, clock_vars, unit_vars>>

\* Devices.__exit__: close_all
Devices_exit ==
    /\ pc_fg = "exit"
    /\ \E order \in Orders(devices) : SetWorld(Devices_close_all(World, order))
    /\ pc_fg' = "finally"
    /\ polled' = {}
    /\ UNCHANGED <<pc_bg, should_be_discovering, new_devices, cycle_vars>>
    /\ UNCHANGED <<framer_vars, clock_vars, unit_vars>>

\* loop: the finally clause
Loop_finally ==
    /\ pc_fg = "finally"
    /\ should_be_discovering' = FALSE
    /\ pc_fg' = "exited"
    /\ UNCHANGED <<pc_bg, new_devices, registry_vars, object_vars, cycle_vars, polled>>
    /\ UNCHANGED <<framer_vars, clock_vars, unit_vars>>

\* an exception that nothing catches ends the thread
AfterDiscoveryError_uncaught == "stopped"

\* threaded_find_and_connect: `except Exception` catches what a cycle
\* raises and prints it; the thread goes on to time.sleep
AfterDiscoveryError == "sleep"

\* threaded_find_and_connect: the while condition
Thread_check ==
    /\ pc_bg = "check"
    /\ pc_bg' = IF should_be_discovering THEN "find" ELSE "stopped"
    /\ UNCHANGED <<pc_fg, should_be_discovering, new_devices, registry_vars,
                   object_vars, cycle_vars, polled>>
    /\ UNCHANGED <<framer_vars, clock_vars, unit_vars>>

\* Devices.find_and_connect and BluetoothDiscovery.find_and_connect up to
\* create_connections: the snapshot ignore_addresses is taken from the
\* registry, then the pairing utility lists the paired devices, or fails
\* (get_paired_devices returns None and sorted(None) raises, which ends
\* the cycle).  The listing reads nothing the main thread writes.
Find_start ==
    /\ pc_bg = "find"
    /\ LET ignore_addresses == Devices_get_connected_addresses(World) IN
       \E listed \in BOOLEAN :
         IF listed
         THEN /\ soil_addresses_and_names' = SoilAddressesAndNames(PairedDevices, ignore_addresses)
              /\ pc_bg' = "connect"
         ELSE /\ soil_addresses_and_names' = <<>>
              /\ pc_bg' = AfterDiscoveryError
    /\ conn_new_devices' = <<>>
    /\ retry' = 0
    /\ UNCHANGED <<pc_fg, should_be_discovering, new_devices, registry_vars, object_vars, polled>>
    /\ UNCHANGED <<framer_vars, clock_vars, unit_vars>>

\* create_connections: one create_connection, that is one Device.create,
\* for the first candidate left
Create_connection ==
    /\ pc_bg = "connect"
    /\ soil_addresses_and_names # <<>>
    /\ LET c == Head(soil_addresses_and_names) IN
       \E result \in {"connected", "host_down", "error"} :
         \/ /\ result = "connected"
            /\ Len(device) < MaxDevices
            /\ device' = Append(device, NewDevice(Len(device) + 1, c.address, c.name))
            /\ socket_closes' = Append(socket_closes, 0)
            /\ conn_new_devices' = Append(conn_new_devices, Len(device) + 1)
            /\ soil_addresses_and_names' = Tail(soil_addresses_and_names)
            /\ retry' = 0
            /\ UNCHANGED pc_bg
         \/ /\ result = "host_down"
            /\ IF retry + 1 < Retries
               THEN retry' = retry + 1 /\ UNCHANGED soil_addresses_and_names
               ELSE retry' = 0 /\ soil_addresses_and_names' = Tail(soil_addresses_and_names)
            /\ UNCHANGED <<pc_bg, conn_new_devices, object_vars>>
         \/ /\ result = "error"
            /\ pc_bg' = AfterDiscoveryError
            /\ soil_addresses_and_names' = <<>>
            /\ conn_new_devices' = <<>>
            /\ retry' = 0
            /\ UNCHANGED object_vars
    /\ UNCHANGED <<pc_fg, should_be_discovering, new_devices, registry_vars, polled>>
    /\ UNCHANGED <<framer_vars, clock_vars, unit_vars>>

\* create_connections and both find_and_connect return; with nothing
\* to put the thread goes to sleep
Find_return ==
    /\ pc_bg = "connect"
    /\ soil_addresses_and_names = <<>>
    /\ SetWorld(Devices_find_and_connect_end(World, ThreadAddArgument, conn_new_devices))
    /\ pc_bg' = IF conn_new_devices = <<>> THEN "sleep" ELSE "put"
    /\ UNCHANGED <<pc_fg, should_be_discovering, new_devices,
                   soil_addresses_and_names, conn_new_devices, retry, polled>>
    /\ UNCHANGED <<framer_vars, clock_vars, unit_vars>>

\* threaded_find_and_connect: self.new_devices.put(device), one turn of
\* the for loop; after the last one the thread goes to sleep
Thread_put ==
    /\ pc_bg = "put"
    /\ conn_new_devices # <<>>
    /\ new_devices' = Append(new_devices, Head(conn_new_devices))
    /\ conn_new_devices' = Tail(conn_new_devices)
    /\ pc_bg' = IF Tail(conn_new_devices) = <<>> THEN "sleep" ELSE "put"
    /\ UNCHANGED <<pc_fg, should_be_discovering, registry_vars, object_vars,
                   soil_addresses_and_names, retry, polled>>
    /\ UNCHANGED <<framer_vars, clock_vars, unit_vars>>

\* threaded_find_and_connect: time.sleep returns
Thread_sleep ==
    /\ pc_bg = "sleep"
    /\ pc_bg' = "check"
    /\ UNCHANGED <<pc_fg, should_be_discovering, new_devices, registry_vars,
                   object_vars, cycle_vars, polled>>
    /\ UNCHANGED <<framer_vars, clock_vars, unit_vars>>

\* discovery_thread is a daemon thread: it ends with the process once the
\* main thread has left loop
Process_exit ==
    /\ pc_fg = "exited"
    /\ pc_bg \notin {"idle", "stopped"}
    /\ pc_bg' = "stopped"
    /\ soil_addresses_and_names' = <<>>
    /\ conn_new_devices' = <<>>
    /\ retry' = 0
    /\ UNCHANGED <<pc_fg, should_be_discovering, new_devices, registry_vars,
                   object_vars, polled>>
    /\ UNCHANGED <<framer_vars, clock_vars, unit_vars>>

Foreground ==
    \/ Loop_start
    \/ ReceiveAndHandleData
    \/ AddNewDevices_get
    \/ AddNewDevices_done
    \/ Interrupt
    \/ Devices_exit
    \/ Loop_finally

Background ==
    \/ Thread_check
    \/ Find_start
    \/ Create_connection
    \/ Find_return
    \/ Thread_put
    \/ Thread_sleep
    \/ Process_exit

Next == Foreground \/ Background

Spec == Init /\ [][Next]_vars

----------------------------------------------------------------------------
(* The registry and the two threads. *)

\* C1: between registry operations the three indices agree with the
\* primary set: every device of Devices.devices is the value of by_socket
\* at its socket and of by_address at its address and is in by_name at its
\* name, and no index holds a device that is not in Devices.devices.
C1_IndicesAgreeWithPrimarySet ==
    /\ \A d \in devices :
         /\ device[d].socket \in DOMAIN by_socket
         /\ by_socket[device[d].socket] = d
         /\ device[d].address \in DOMAIN by_address
         /\ by_address[device[d].address] = d
         /\ device[d].name \in DOMAIN by_name
         /\ d \in by_name[device[d].name]
    /\ \A k \in DOMAIN by_socket : by_socket[k] \in devices
    /\ \A k \in DOMAIN by_address : by_address[k] \in devices
    /\ \A k \in DOMAIN by_name : by_name[k] \subseteq devices

\* C2: in every reachable state of the running server no two distinct
\* Devices of the registry have the same address.
C2_RegistryAddressesUnique ==
    \A d1 \in devices : \A d2 \in devices :
        d1 # d2 => device[d1].address # device[d2].address

\* C3: no step of the background discovery loop changes Devices.devices,
\* by_socket, by_address or by_name, and a Device enters the registry only
\* when add_new_devices on the main thread takes it from the head of the
\* handoff queue.
C3_BackgroundNeverMutatesRegistry ==
    [][/\ Background => UNCHANGED registry_vars
       /\ \A d \in devices' \ devices :
            /\ pc_fg = "add"
            /\ new_devices # <<>>
            /\ d = Head(new_devices)
            /\ new_devices' = Tail(new_devices)
            /\ UNCHANGED <<pc_bg, cycle_vars>>]_vars

\* a discovered Device waits in the handoff queue, outside the registry,
\* while the main thread has already added an earlier one
C3_Witness ==
    /\ new_devices # <<>>
    /\ Head(new_devices) \notin devices
    /\ devices # {}

\* C4: when loop leaves `with self.devices`, close_all has closed each
\* connected device of the registry exactly once and the primary set is
\* empty.
C4_LoopExitClosesAll ==
    [][(pc_fg = "exit" /\ pc_fg' = "finally") =>
         /\ devices' = {}
         /\ \A d \in devices :
              socket_closes'[device[d].socket] =
                socket_closes[device[d].socket] + (IF device[d].connected THEN 1 ELSE 0)]_vars

\* C5: once the main thread has left loop and the discovery thread has
\* stopped, the socket of every Device that Device.create returned has
\* been closed.
C5_AllSocketsClosedAfterTermination ==
    (pc_fg = "exited" /\ pc_bg = "stopped") =>
        \A d \in DOMAIN device : socket_closes[device[d].socket] > 0

C18_HandleReleasedOnceAndBeforeRemoval ==
    /\ [](\A d \in DOMAIN device :
            /\ socket_closes[device[d].socket] <= 1
            /\ device[d].connected <=> socket_closes[device[d].socket] = 0)
    /\ [][\A d \in devices \ devices' :
            /\ ~device'[d].connected
            /\ socket_closes'[device[d].socket] = 1]_vars

\* the loop has ended: at least two Devices had been created, each has
\* been closed, by a detected disconnect or by close_all, and the registry
\* is empty
C18_Witness ==
    /\ pc_fg = "finally"
    /\ devices = {}
    /\ Len(device) >= 2
    /\ \A d \in DOMAIN device : ~device[d].connected

----------------------------------------------------------------------------
(* The two threads under fair scheduling: a thread that can take its next   *)
(* step takes it.  The interrupt from outside is under no obligation.       *)

\* receive_and_handle_data does not last forever.  It can run whenever the
\* main thread is at it and only then, and it takes the main thread
\* elsewhere, so this is weak fairness of ReceiveAndHandleData.
ReceiveReturns == []<>(pc_fg # "receive")

FairSpec ==
    /\ Spec
    /\ ReceiveReturns
    /\ WF_vars(AddNewDevices_get)
    /\ WF_vars(AddNewDevices_done)
    /\ WF_vars(Thread_check)
    /\ WF_vars(Thread_sleep)

\* a step of the discovery thread, the process still running, in which a
\* cycle fails: the pairing utility fails, or a Device.create raises an
\* error other than HostDown
FailedCycle ==
    /\ pc_fg # "exited"
    /\ \/ pc_bg = "find" /\ pc_bg' \notin {"find", "connect"}
       \/ pc_bg = "connect" /\ soil_addresses_and_names # <<>> /\ pc_bg' # "connect"

\* C15: a failing discovery cycle leaves the main thread, the registry, the
\* queue and the flag as they are and takes the discovery thread to its
\* sleep; the thread stops only when should_be_discovering is false, and
\* from its sleep it always comes to start the next cycle or, the flag
\* being false, to stop.
C15_DiscoveryFailureIsNotFatal ==
    /\ [][FailedCycle =>
            /\ pc_bg' = "sleep"
            /\ UNCHANGED <<pc_fg, should_be_discovering, new_devices, registry_vars, polled>>]_vars
    /\ [][(pc_bg # "stopped" /\ pc_bg' = "stopped") => ~should_be_discovering]_vars
    /\ (pc_bg = "sleep") ~> (pc_bg \in {"find", "stopped"})

\* a cycle has failed while the registry held a device, and a later cycle
\* is running
C15_Witness ==
    /\ pc_bg = "connect"
    /\ conn_new_devices = <<>>
    /\ devices # {}
    /\ \E d \in DOMAIN device :
         /\ d \notin devices
         /\ d \notin Range(new_devices)
         /\ device[d].connected

\* C16: the queue changes only by a put at its tail or by add_new_devices
\* taking its head, which enters the registry in that step; a Device
\* waiting in the queue is there once and has never been in the registry;
\* and, the threads being scheduled fairly, every queued Device comes to be
\* in the registry unless the main thread leaves its loop.
C16_QueuedDevicesAreAdded ==
    /\ [](\A i, j \in DOMAIN new_devices :
            /\ new_devices[i] = new_devices[j] => i = j
            /\ new_devices[i] \notin devices
            /\ device[new_devices[i]].connected
            /\ socket_closes[device[new_devices[i]].socket] = 0)
    /\ [][\/ UNCHANGED new_devices
          \/ \E d \in DOMAIN device' : new_devices' = Append(new_devices, d)
          \/ /\ new_devices # <<>>
             /\ new_devices' = Tail(new_devices)
             /\ devices' = devices \cup {Head(new_devices)}]_vars
    /\ [][devices' \subseteq devices \/ UNCHANGED new_devices
          \/ (new_devices # <<>> /\ devices' \ devices = {Head(new_devices)})]_vars
    /\ \A d \in 1..MaxDevices :
         (d \in Range(new_devices)) ~> (d \in devices \/ pc_fg \notin {"receive", "add"})

\* two Devices wait in the queue while the main thread is in its loop
C16_Witness ==
    /\ Len(new_devices) >= 2
    /\ pc_fg \in {"receive", "add"}
    /\ devices # {}

----------------------------------------------------------------------------
(* Stream framing alone: one Device, a byte stream cut into chunks at       *)
(* arbitrary places, each chunk given to append_socket_data.                *)

\* the streams have at most this many bytes
MaxStream == 4

\* 'a', CR, LF and the two bytes of U+00E9, each of which alone is not UTF-8
ByteAlphabet == {97, CR, LF, 195, 169}

ByteStrings(n) == UNION {[1..k -> ByteAlphabet] : k \in 0..n}

FramerInit ==
    /\ ServerInit
    /\ ClockIdle
    /\ stream \in ByteStrings(MaxStream)
    /\ fed = <<>>
    /\ buffer = <<>>
    /\ returned = <<>>
    /\ append_raised = FALSE
    /\ UnitIdle

\* Device.receive_data with data to read: get_new_data drains the next
\* chunk of the stream and append_socket_data frames it
Receive_chunk ==
    /\ \E k \in 1..Len(stream) :
         LET new_data == SubSeq(stream, 1, k)
             r == append_socket_data(buffer, new_data)
         IN  /\ buffer' = r.buffer
             /\ returned' = returned \o r.lines
             /\ append_raised' = (append_raised \/ r.raised)
             /\ fed' = fed \o new_data
             /\ stream' = SubSeq(stream, k + 1, Len(stream))
    /\ UNCHANGED <<server_vars, clock_vars, unit_vars>>

FramerNext == Receive_chunk

FramerSpec == FramerInit /\ [][FramerNext]_vars

\* The delimiters of a byte string, by position: CR LF cannot overlap itself
DelimiterPositions(s) == {i \in 1..(Len(s) - 1) : s[i] = CR /\ s[i + 1] = LF}

NthDelimiter(s, k) ==
    CHOOSE i \in DelimiterPositions(s) :
        Cardinality({j \in DelimiterPositions(s) : j < i}) = k - 1

FragmentStart(s, k) == IF k = 1 THEN 1 ELSE NthDelimiter(s, k - 1) + 2

\* the bytes between delimiter k-1 and delimiter k
FragmentBefore(s, k) == SubSeq(s, FragmentStart(s, k), NthDelimiter(s, k) - 1)

\* the bytes after the last delimiter
BytesAfterLastDelimiter(s) ==
    SubSeq(s, FragmentStart(s, Cardinality(DelimiterPositions(s)) + 1), Len(s))

\* C7: however the bytes fed so far were cut into chunks, the lines
\* returned over all calls are the fragments before the delimiters fed so
\* far, one per delimiter and in order, and Device.buffer is the bytes
\* after the last delimiter.
C7_FramingIndependentOfCuts ==
    LET n == Cardinality(DelimiterPositions(fed))
    IN  /\ Len(returned) = n
        /\ \A k \in 1..n :
             k <= Len(returned) => returned[k] = bytes_decode(FragmentBefore(fed, k)).text
        /\ buffer = BytesAfterLastDelimiter(fed)

\* the fragments before the delimiters k..n of s that are UTF-8, decoded
RECURSIVE DecodableFragmentsFrom(_, _)
DecodableFragmentsFrom(s, k) ==
    IF k > Cardinality(DelimiterPositions(s)) THEN <<>>
    ELSE (IF bytes_decode(FragmentBefore(s, k)).raised THEN <<>>
          ELSE <<bytes_decode(FragmentBefore(s, k)).text>>)
         \o DecodableFragmentsFrom(s, k + 1)

\* C12: no call of Device.receive_data raises on a fragment that is not
\* UTF-8; the lines returned so far are the completed fragments that
\* decode, in order, and Device.buffer is the bytes after the last
\* delimiter.
C12_DecodeFailureConfinedToLine ==
    /\ ~append_raised
    /\ returned = DecodableFragmentsFrom(fed, 1)
    /\ buffer = BytesAfterLastDelimiter(fed)

----------------------------------------------------------------------------
(* Lines, envelopes and clock reconciliation: DeviceServer.parse_device_line *)
(* and get_device_best_startup_estimate.  A line is a sequence of symbols:  *)
(* a character [ch |-> c], or a whole JSON text [json |-> j] standing for   *)
(* the characters of that text (none of them a newline).  Instants and      *)
(* durations are integers, in milliseconds.                                 *)

IsChar(x, c) == "ch" \in DOMAIN x /\ x.ch = c
IsDigitSymbol(x) ==
    "ch" \in DOMAIN x /\ x.ch \in {"0", "1", "2", "3", "4", "5", "6", "7", "8", "9"}

\* the length of the run of digits of `line` that starts at position i
RECURSIVE DigitRun(_, _)
DigitRun(line, i) ==
    IF i <= Len(line) /\ IsDigitSymbol(line[i]) THEN 1 + DigitRun(line, i + 1) ELSE 0

\* RE_PARSE_LINE.match(line), r'^\[(\d+)\[(.*)]\1]$': `[`, the longest run
\* of digits, `[`, then anything up to a final `]`, the same digits, `]`.
\* group2 is match.group(2).
RE_PARSE_LINE_match(line) ==
    LET n == Len(line)
        k == DigitRun(line, 2)
        matched ==
            /\ n >= 2 * k + 4
            /\ k >= 1
            /\ IsChar(line[1], "[")
            /\ IsChar(line[k + 2], "[")
            /\ IsChar(line[n - k - 1], "]")
            /\ SubSeq(line, n - k, n - 1) = SubSeq(line, 2, k + 1)
            /\ IsChar(line[n], "]")
    IN  [matched |-> matched,
         group2 |-> IF matched THEN SubSeq(line, k + 3, n - k - 2) ELSE <<>>]

\* a JSON value that is no object: subscripting it with a key raises
NotAnObject == [valid |-> TRUE, keys |-> {}]

\* json.loads on the text of group 2: one JSON text that is valid, or
\* digits alone (a number); anything else raises
json_loads(text) ==
    IF Len(text) = 1 /\ "json" \in DOMAIN text[1] /\ text[1].json.valid
    THEN [raised |-> FALSE, value |-> text[1].json]
    ELSE IF Len(text) >= 1 /\ \A i \in 1..Len(text) : IsDigitSymbol(text[i])
    THEN [raised |-> FALSE, value |-> NotAnObject]
    ELSE [raised |-> TRUE, value |-> NotAnObject]

\* datetime.isoformat(): the instant, formatted
isoformat(t) == [iso |-> t]

Min2(a, b) == IF a <= b THEN a ELSE b

\* the dict that keeps, of what setdefault and min would leave, the first
\* estimate of a controller
get_device_best_startup_estimate_keeps_first(estimates, controller_id, device_startup_estimate) ==
    IF controller_id \in DOMAIN estimates THEN estimates
    ELSE DictPut(estimates, controller_id, device_startup_estimate)

\* the dict that always takes the latest estimate
get_device_best_startup_estimate_takes_latest(estimates, controller_id, device_startup_estimate) ==
    DictPut(estimates, controller_id, device_startup_estimate)

\* get_device_best_startup_estimate: devices_best_startup_estimates after
\* the call; the call returns its entry for controller_id
get_device_best_startup_estimate(estimates, controller_id, device_startup_estimate) ==
    LET seeded == IF controller_id \in DOMAIN estimates THEN estimates
                  ELSE DictPut(estimates, controller_id, device_startup_estimate)
        current_device_best_startup_estimate == seeded[controller_id]
    IN  DictPut(seeded, controller_id,
                Min2(current_device_best_startup_estimate, device_startup_estimate))

\* the startup estimate alone, without the time since startup
TakenAt_startup(device_best_startup_estimate, time_since_startup) ==
    device_best_startup_estimate

\* taken_at = device_best_startup_estimate + time_since_startup
TakenAt(device_best_startup_estimate, time_since_startup) ==
    device_best_startup_estimate + time_since_startup

MeasurementKeys == {"sensor_id", "plant_id", "moisture"}

\* parse_device_line(device, line, received_at) with
\* devices_best_startup_estimates = estimates: the pair it returns (error,
\* measurements), the dict afterwards, and whether and with what
\* get_device_best_startup_estimate was called.
parse_device_line(estimates, device_name, line, received_at) ==
    LET match == RE_PARSE_LINE_match(line)
        loaded == json_loads(match.group2)
        data == loaded.value
        failed(error, dict, sampled) ==
            [error |-> error, measurements |-> <<>>, estimates |-> dict,
             sampled |-> sampled, controller_id |-> 0, device_startup_estimate |-> 0]
    IN
    IF ~match.matched THEN failed("Could not match line", estimates, FALSE)
    ELSE IF loaded.raised THEN failed("Could not parse JSON", estimates, FALSE)
    ELSE IF ~({"measurements", "controller_id", "millis"} \subseteq data.keys)
    THEN failed("Could not parse data", estimates, FALSE)
    ELSE
      LET raw_measurements == data.measurements
          controller_id == data.controller_id
          time_since_startup == data.millis
          device_startup_estimate == received_at - time_since_startup
          after == get_device_best_startup_estimate(
                       estimates, controller_id, device_startup_estimate)
          taken_at == TakenAt(after[controller_id], time_since_startup)
      IN  IF \E i \in 1..Len(raw_measurements) :
                 ~(MeasurementKeys \subseteq raw_measurements[i].keys)
          THEN [failed("Could not parse data", after, TRUE) EXCEPT
                   !.controller_id = controller_id,
                   !.device_startup_estimate = device_startup_estimate]
          ELSE [error |-> "None",
                measurements |->
                    [i \in 1..Len(raw_measurements) |->
                        [controller_id |-> controller_id,
                         sensor_id |-> raw_measurements[i].sensor_id,
                         bluetooth_name |-> device_name,
                         plant_id |-> raw_measurements[i].plant_id,
                         moisture |-> raw_measurements[i].moisture,
                         received_at |-> isoformat(received_at),
                         taken_at |-> taken_at]],
                estimates |-> after,
                sampled |-> TRUE,
                controller_id |-> controller_id,
                device_startup_estimate |-> device_startup_estimate]

----------------------------------------------------------------------------
(* Clock reconciliation alone: lines of two controllers arrive at the      *)
(* server at arbitrary instants and go through parse_device_line.          *)

\* datetime.now() returns one of this many instants, a second apart
ClockTicks == 2

Times == {1000 * t : t \in 1..ClockTicks}

Ch(c) == [ch |-> c]

Measurement70 ==
    [keys |-> MeasurementKeys, sensor_id |-> 1, plant_id |-> 1, moisture |-> 70]
Measurement55 ==
    [keys |-> MeasurementKeys, sensor_id |-> 2, plant_id |-> 1, moisture |-> 55]
\* {"sensor_id": 2, "plant_id": 1}
MeasurementNoMoisture ==
    [keys |-> {"sensor_id", "plant_id"}, sensor_id |-> 2, plant_id |-> 1, moisture |-> 0]

\* the text of {"controller_id": c, "measurements": ms, "millis": m}
Payload(c, m, ms) ==
    [valid |-> TRUE, keys |-> {"controller_id", "millis", "measurements"},
     controller_id |-> c, millis |-> m, measurements |-> ms]

\* a text that is not JSON
InvalidJson == [valid |-> FALSE, keys |-> {}]

JsonTexts ==
    {Payload(c, m, <<Measurement70>>) : c \in {100, 101}, m \in {1000, 2000}}
    \cup {Payload(100, 1000, <<Measurement70, Measurement55>>),
          Payload(100, 2000, <<Measurement70, MeasurementNoMoisture>>),
          Payload(101, 2000, <<>>)}
    \cup {[Payload(100, 1000, <<Measurement70>>) EXCEPT !.keys = @ \ {k}] :
             k \in {"controller_id", "millis", "measurements"}}
    \cup {InvalidJson}

Id7 == <<Ch("7")>>
Id8 == <<Ch("8")>>
Id100 == <<Ch("1"), Ch("0"), Ch("0")>>

\* [<id1>[<text>]<id2>]
Envelope(id1, text, id2) ==
    <<Ch("[")>> \o id1 \o <<Ch("[")>> \o text \o <<Ch("]")>> \o id2 \o <<Ch("]")>>

Lines ==
    {Envelope(Id100, <<[json |-> j]>>, Id100) : j \in JsonTexts}
    \cup {Envelope(Id7, <<[json |-> Payload(100, 1000, <<Measurement70>>)]>>, Id8),
          <<[json |-> Payload(100, 1000, <<Measurement70>>)]>>,
          Envelope(Id7, Id7, Id7)}

ClockInit == ServerInit /\ FramerIdle /\ ClockIdle /\ UnitIdle

\* parse_data: one call of parse_device_line, for a line of a device
\* named SOIL-1 received at instant t
Parse_device_line ==
    /\ \E line \in Lines, t \in Times :
         LET r == parse_device_line(devices_best_startup_estimates, NameSoil1, line, t)
             c == r.controller_id
             seen == IF c \in DOMAIN samples THEN samples[c] ELSE {}
         IN  /\ devices_best_startup_estimates' = r.estimates
             /\ samples' = IF r.sampled
                           THEN DictPut(samples, c, seen \cup {r.device_startup_estimate})
                           ELSE samples
             /\ call' = [line |-> line, received_at |-> t, error |-> r.error,
                         measurements |-> r.measurements]
    /\ UNCHANGED <<server_vars, framer_vars, unit_vars>>

ClockNext == Parse_device_line

ClockSpec == ClockInit /\ [][ClockNext]_vars

\* the `data` of the last call that got past json.loads
CallData == json_loads(RE_PARSE_LINE_match(call.line).group2).value

\* C8: after every call the stored estimate of each controller is the
\* minimum of the estimates passed for that controller so far; it never
\* increases, and a call that brings no new sample for a controller leaves
\* that controller's estimate as it was.
C8_EstimateIsMinimumOfSamples ==
    /\ [](/\ DOMAIN devices_best_startup_estimates = DOMAIN samples
          /\ \A c \in DOMAIN samples :
               /\ devices_best_startup_estimates[c] \in samples[c]
               /\ \A e \in samples[c] : devices_best_startup_estimates[c] <= e)
    /\ [][\A c \in DOMAIN devices_best_startup_estimates :
            /\ c \in DOMAIN devices_best_startup_estimates'
            /\ devices_best_startup_estimates'[c] <= devices_best_startup_estimates[c]
            /\ samples'[c] = samples[c] =>
                 devices_best_startup_estimates'[c] = devices_best_startup_estimates[c]]_vars

\* both controllers have estimates, and one of them has seen a later
\* sample that is larger than its estimate
C8_Witness ==
    /\ DOMAIN devices_best_startup_estimates = {100, 101}
    /\ \E c \in DOMAIN samples :
         /\ Cardinality(samples[c]) >= 2
         /\ call.error = "None"
         /\ CallData.controller_id = c
         /\ call.received_at - CallData.millis > devices_best_startup_estimates[c]

FirstLine == Envelope(Id100, <<[json |-> Payload(100, 1000, <<Measurement70>>)]>>, Id100)

\* C9 as stated: the first line of controller 100, with millis = 1000 and
\* one measurement of moisture 70, received at T, gives a record with
\* taken_at = T - 1000 and moisture = 70.
C9_FirstSampleTakenAtReceiptMinusUptime ==
    [][(100 \notin DOMAIN devices_best_startup_estimates /\ call'.line = FirstLine) =>
         /\ call'.error = "None"
         /\ Len(call'.measurements) = 1
         /\ call'.measurements[1].taken_at = call'.received_at - 1000
         /\ call'.measurements[1].moisture = 70]_vars

\* C9 as amended: that record has taken_at = T, the instant of receipt
\* (the estimate T - 1000 plus the uptime of 1000), and moisture = 70.
C9_FirstSampleTakenAtReceipt ==
    [][(100 \notin DOMAIN devices_best_startup_estimates /\ call'.line = FirstLine) =>
         /\ call'.error = "None"
         /\ Len(call'.measurements) = 1
         /\ call'.measurements[1].taken_at = call'.received_at
         /\ call'.measurements[1].moisture = 70
         /\ devices_best_startup_estimates'[100] = call'.received_at - 1000]_vars

\* the first line of controller 100 has just been parsed
C9_Witness ==
    /\ call.line = FirstLine
    /\ call.error = "None"
    /\ 100 \in DOMAIN samples
    /\ samples[100] = {call.received_at - 1000}
    /\ Len(call.measurements) = 1
    /\ call.measurements[1].moisture = 70

\* C10: every record of a line that parsed has taken_at = the stored
\* estimate of its controller (this sample included) + the reported
\* uptime; taken_at is never later than received_at, and equals it exactly
\* when this sample's received_at - uptime is the smallest seen so far.
C10_TakenAtIsEstimatePlusUptime ==
    call.error = "None" =>
        LET c == CallData.controller_id
            uptime == CallData.millis
        IN  \A i \in 1..Len(call.measurements) :
              /\ call.measurements[i].taken_at = devices_best_startup_estimates[c] + uptime
              /\ call.measurements[i].taken_at <= call.received_at
              /\ call.measurements[i].taken_at = call.received_at
                   <=> \A e \in samples[c] : call.received_at - uptime <= e

\* a line has just parsed whose records are dated before its receipt,
\* an earlier sample of its controller having been smaller
C10_Witness ==
    /\ call.error = "None"
    /\ Len(call.measurements) >= 1
    /\ call.measurements[1].taken_at < call.received_at

\* C21: a call of parse_device_line that returns an error leaves
\* devices_best_startup_estimates as it was.
C21_ErrorLineLeavesEstimatesUnchanged ==
    [][call'.error # "None" =>
         devices_best_startup_estimates' = devices_best_startup_estimates]_vars

----------------------------------------------------------------------------
(* One pass of parsing alone: DeviceServer.parse_data over the dict that    *)
(* Devices.receive_data returned, as receive_and_handle_data calls it.      *)

\* a device of a pass has at most this many lines
MaxBatchLines == 2

\* The operators of parse_data thread a record acc through its loops: the
\* dict of estimates, the list `measurements`, and whether an exception is
\* propagating.

\* the body of the inner loop with the `continue` left out:
\* measurements.extend(None) raises TypeError
parse_data_line_without_continue(acc, device_name, line, received_at) ==
    LET r == parse_device_line(acc.estimates, device_name, line, received_at)
    IN  IF r.error # "None"
        THEN [acc EXCEPT !.estimates = r.estimates, !.raised = TRUE]
        ELSE [acc EXCEPT !.estimates = r.estimates,
                         !.measurements = @ \o r.measurements]

\* parse_data, the body of the inner loop: parse_device_line, then either
\* print(error) and continue, or measurements.extend(device_measurements)
parse_data_line(acc, device_name, line, received_at) ==
    LET r == parse_device_line(acc.estimates, device_name, line, received_at)
    IN  IF r.error # "None"
        THEN [acc EXCEPT !.estimates = r.estimates]
        ELSE [acc EXCEPT !.estimates = r.estimates,
                         !.measurements = @ \o r.measurements]

\* parse_data, the inner loop over the lines of one device
RECURSIVE ParseLines(_, _, _)
ParseLines(acc, entry, i) ==
    IF i > Len(entry.lines) \/ acc.raised THEN acc
    ELSE ParseLines(parse_data_line(acc, entry.name, entry.lines[i], entry.received_at),
                    entry, i + 1)

\* parse_data, the outer loop over data.items()
RECURSIVE ParseEntries(_, _, _)
ParseEntries(acc, data, i) ==
    IF i > Len(data) \/ acc.raised THEN acc
    ELSE ParseEntries(ParseLines(acc, data[i], 1), data, i + 1)

parse_data(estimates, data) ==
    ParseEntries([estimates |-> estimates, measurements |-> <<>>, raised |-> FALSE],
                 data, 1)

MissingMillis == [Payload(100, 1000, <<Measurement70>>) EXCEPT !.keys = @ \ {"millis"}]

\* the lines a device may have completed in a pass: two that parse, and one
\* for each way of failing
BatchLines ==
    {FirstLine,
     Envelope(Id100, <<[json |-> Payload(100, 2000, <<Measurement70, Measurement55>>)]>>, Id100),
     Envelope(Id7, <<[json |-> Payload(100, 1000, <<Measurement70>>)]>>, Id8),
     <<[json |-> Payload(100, 1000, <<Measurement70>>)]>>,
     Envelope(Id100, <<[json |-> InvalidJson]>>, Id100),
     Envelope(Id100, <<[json |-> MissingMillis]>>, Id100),
     Envelope(Id100, <<[json |-> Payload(100, 2000, <<Measurement70, MeasurementNoMoisture>>)]>>, Id100)}

LineLists == UNION {[1..n -> BatchLines] : n \in 0..MaxBatchLines}

\* the dict of a pass, in the order of its items: no device, the device
\* SOIL-1 read at 1000, or SOIL-1 and then SOIL-2 read at 2000
Batches ==
    {<<>>}
    \cup {<<[name |-> NameSoil1, lines |-> l1, received_at |-> 1000]>> : l1 \in LineLists}
    \cup {<<[name |-> NameSoil1, lines |-> l1, received_at |-> 1000],
            [name |-> NameSoil2, lines |-> l2, received_at |-> 2000]>> :
             l1 \in LineLists, l2 \in LineLists}

BatchInit ==
    /\ ServerInit
    /\ FramerIdle
    /\ ClockIdle
    /\ DiscoveryIdle
    /\ ReadIdle
    /\ batch \in {[NoBatch EXCEPT !.data = d] : d \in Batches}

\* receive_and_handle_data after Devices.receive_data: parse_data inside
\* the try; an exception there is caught and printed
Parse_data ==
    /\ ~batch.parsed
    /\ LET r == parse_data(devices_best_startup_estimates, batch.data) IN
         /\ devices_best_startup_estimates' = r.estimates
         /\ batch' = [batch EXCEPT !.parsed = TRUE,
                                   !.measurements = r.measurements,
                                   !.raised = r.raised]
    /\ UNCHANGED <<server_vars, framer_vars, samples, call, discovery_vars, read_vars>>

BatchNext == Parse_data

BatchSpec == BatchInit /\ [][BatchNext]_vars

\* A line as the device protocol defines it: [id[payload]id] with the same
\* id on both sides, a payload that is JSON with controller_id, millis and
\* measurements, each measurement with sensor_id, plant_id and moisture.
PayloadOf(line) == line[(Len(line) + 1) \div 2].json

WellFormed(line) ==
    \E id \in {Id7, Id8, Id100} :
        /\ Len(line) = 2 * Len(id) + 5
        /\ "json" \in DOMAIN line[Len(id) + 3]
        /\ line = Envelope(id, <<[json |-> PayloadOf(line)]>>, id)
        /\ PayloadOf(line).valid
        /\ {"controller_id", "millis", "measurements"} \subseteq PayloadOf(line).keys
        /\ \A i \in 1..Len(PayloadOf(line).measurements) :
             MeasurementKeys \subseteq PayloadOf(line).measurements[i].keys

\* what a record says of where it comes from
Reading(name, m) ==
    [bluetooth_name |-> name, sensor_id |-> m.sensor_id, plant_id |-> m.plant_id,
     moisture |-> m.moisture]

RECURSIVE ExpectedOfLines(_, _, _)
ExpectedOfLines(name, lines, i) ==
    IF i > Len(lines) THEN <<>>
    ELSE (IF WellFormed(lines[i])
          THEN [k \in 1..Len(PayloadOf(lines[i]).measurements) |->
                   Reading(name, PayloadOf(lines[i]).measurements[k])]
          ELSE <<>>)
         \o ExpectedOfLines(name, lines, i + 1)

RECURSIVE ExpectedOfBatch(_, _)
ExpectedOfBatch(data, i) ==
    IF i > Len(data) THEN <<>>
    ELSE ExpectedOfLines(data[i].name, data[i].lines, 1) \o ExpectedOfBatch(data, i + 1)

\* C11: parse_data never raises, and the records it returns are the
\* records of the well-formed lines of the pass, device after device and
\* line after line: a line that fails parsing contributes nothing and stops
\* no later line of its device or of another device.
C11_MalformedLineIsSkipped ==
    batch.parsed =>
        /\ ~batch.raised
        /\ [k \in 1..Len(batch.measurements) |->
               Reading(batch.measurements[k].bluetooth_name, batch.measurements[k])]
           = ExpectedOfBatch(batch.data, 1)

\* a pass in which a malformed line of SOIL-1 came before a good one, and
\* SOIL-2 had a good line too, has been parsed into records of both
C11_Witness ==
    /\ batch.parsed
    /\ Len(batch.data) = 2
    /\ Len(batch.data[1].lines) = 2
    /\ ~WellFormed(batch.data[1].lines[1])
    /\ WellFormed(batch.data[1].lines[2])
    /\ \E i \in 1..Len(batch.data[2].lines) : WellFormed(batch.data[2].lines[i])
    /\ \E k \in 1..Len(batch.measurements) : batch.measurements[k].bluetooth_name = NameSoil1
    /\ \E k \in 1..Len(batch.measurements) : batch.measurements[k].bluetooth_name = NameSoil2

----------------------------------------------------------------------------
(* Discovery alone: one call of BluetoothDiscovery.find_and_connect, for    *)
(* any listing of the pairing utility and any ignore list, each             *)
(* Device.create meeting any of its outcomes.                               *)

\* the pairing utility lists at most this many devices
MaxPaired == 3

\* "SOIL-", a name that lacks the digits
NameSoilNoDigits == <<83, 79, 73, 76, 45>>

PairedEntries ==
    {[mac_address |-> "AA:1", name |-> NameSoil1],
     [mac_address |-> "BB:2", name |-> NameOther],
     [mac_address |-> "CC:3", name |-> NameSoil2],
     [mac_address |-> "DD:4", name |-> NameSoil1],
     [mac_address |-> "EE:5", name |-> NameSoilNoDigits]}

\* the listings: each paired device once, in any order
Listings ==
    UNION {{l \in [1..n -> PairedEntries] : \A i, j \in 1..n : l[i] = l[j] => i = j} :
              n \in 0..MaxPaired}

IgnoreLists == {{}, {"AA:1"}, {"AA:1", "CC:3"}}

\* What get_paired_devices returns: the list of the paired devices, or
\* None when the pairing utility fails
PairedResults ==
    {[is_none |-> FALSE, list |-> l] : l \in Listings}
    \cup {[is_none |-> TRUE, list |-> <<>>]}

DiscoveryInit ==
    /\ ServerInit
    /\ FramerIdle
    /\ ClockIdle
    /\ BatchIdle
    /\ ReadIdle
    /\ disc_pc = "idle"
    /\ paired_devices \in PairedResults
    /\ call_ignore_addresses \in IgnoreLists
    /\ attempts = <<>>

\* BluetoothDiscovery.find_and_connect up to create_connections;
\* sorted(None) raises TypeError
Discovery_list ==
    /\ disc_pc = "idle"
    /\ IF ~paired_devices.is_none
       THEN /\ soil_addresses_and_names' =
                  SoilAddressesAndNames(paired_devices.list, call_ignore_addresses)
            /\ disc_pc' = "connect"
       ELSE /\ soil_addresses_and_names' = <<>>
            /\ disc_pc' = "aborted"
    /\ UNCHANGED <<pc_fg, pc_bg, should_be_discovering, new_devices, registry_vars,
                   object_vars, conn_new_devices, retry, polled>>
    /\ UNCHANGED <<paired_devices, call_ignore_addresses, attempts>>
    /\ UNCHANGED <<framer_vars, clock_vars, batch_vars, read_vars>>

\* one budget for the whole call: the count goes on from one address to the next
create_connections_host_down_shared_budget(candidates, retry_now, retries) ==
    IF retry_now + 1 < retries
    THEN [soil_addresses_and_names |-> candidates, retry |-> retry_now + 1]
    ELSE [soil_addresses_and_names |-> Tail(candidates), retry |-> retry_now]

\* create_connections after a HostDown result: the next turn of
\* `for retry in range(retries)`, or the next address with a new range
create_connections_host_down(candidates, retry_now, retries) ==
    IF retry_now + 1 < retries
    THEN [soil_addresses_and_names |-> candidates, retry |-> retry_now + 1]
    ELSE [soil_addresses_and_names |-> Tail(candidates), retry |-> 0]

\* create_connections: one create_connection, that is one Device.create,
\* for the first candidate left; a BluetoothError other than HostDown
\* leaves create_connections and find_and_connect
Discovery_attempt ==
    /\ disc_pc = "connect"
    /\ soil_addresses_and_names # <<>>
    /\ LET c == Head(soil_addresses_and_names) IN
       \E result \in {"connected", "host_down", "error"} :
         /\ attempts' = Append(attempts, [address |-> c.address, name |-> c.name,
                                          result |-> result])
         /\ \/ /\ result = "connected"
               /\ device' = Append(device, NewDevice(Len(device) + 1, c.address, c.name))
               /\ socket_closes' = Append(socket_closes, 0)
               /\ conn_new_devices' = Append(conn_new_devices, Len(device) + 1)
               /\ soil_addresses_and_names' = Tail(soil_addresses_and_names)
               /\ retry' = 0
               /\ UNCHANGED disc_pc
            \/ /\ result = "host_down"
               /\ LET n == create_connections_host_down(soil_addresses_and_names, retry, Retries)
                  IN  /\ soil_addresses_and_names' = n.soil_addresses_and_names
                      /\ retry' = n.retry
               /\ UNCHANGED <<disc_pc, conn_new_devices, object_vars>>
            \/ /\ result = "error"
               /\ disc_pc' = "aborted"
               /\ UNCHANGED <<soil_addresses_and_names, conn_new_devices, retry, object_vars>>
    /\ UNCHANGED <<pc_fg, pc_bg, should_be_discovering, new_devices, registry_vars, polled>>
    /\ UNCHANGED <<paired_devices, call_ignore_addresses>>
    /\ UNCHANGED <<framer_vars, clock_vars, batch_vars, read_vars>>

\* create_connections and find_and_connect return new_devices
Discovery_return ==
    /\ disc_pc = "connect"
    /\ soil_addresses_and_names = <<>>
    /\ disc_pc' = "returned"
    /\ UNCHANGED <<server_vars, paired_devices, call_ignore_addresses, attempts>>
    /\ UNCHANGED <<framer_vars, clock_vars, batch_vars, read_vars>>

DiscoveryNext == Discovery_list \/ Discovery_attempt \/ Discovery_return

DiscoverySpec == DiscoveryInit /\ [][DiscoveryNext]_vars

\* the paired devices that are soil devices and are not ignored
Paired == Range(paired_devices.list)

Wanted ==
    {e \in Paired :
        e.name \in {NameSoil1, NameSoil2} /\ e.mac_address \notin call_ignore_addresses}

Attempted == {[mac_address |-> attempts[i].address, name |-> attempts[i].name] : i \in DOMAIN attempts}

\* C13 as stated: every attempt is for a paired (address, name) whose name
\* matches SOIL-<digits> and whose address is not ignored, and when the
\* call is over every such pair has been attempted.
C13_AttemptsExactlyTheWanted ==
    /\ Attempted \subseteq Wanted
    /\ disc_pc \in {"returned", "aborted"} => Wanted \subseteq Attempted

\* C13 as amended: every attempt is for such a pair, and when the call
\* returns (no error of the pairing utility and no connect failure other
\* than HostDown has ended it) every such pair has been attempted.
C13_AttemptsExactlyTheWantedWhenReturning ==
    /\ Attempted \subseteq Wanted
    /\ disc_pc = "returned" => Wanted \subseteq Attempted

\* a call has returned that had an ignored soil device and another device
\* to leave out, and a soil device to attempt
C13_Witness ==
    /\ disc_pc = "returned"
    /\ \E e \in Paired :
         e.name = NameSoil1 /\ e.mac_address \in call_ignore_addresses
    /\ \E e \in Paired : e.name \in {NameOther, NameSoilNoDigits}
    /\ Attempted # {}

AttemptsOf(a) == SelectSeq(attempts, LAMBDA x : x.address = a)

Returned == {device[conn_new_devices[i]].address : i \in DOMAIN conn_new_devices}

\* C14: an address is attempted at most `retries` times, every attempt
\* but its last is HostDown, and no attempt follows a success; when
\* create_connections returns, an address that did not connect has had all
\* its `retries` attempts whatever happened to the others, and the returned
\* list holds exactly the addresses whose last attempt succeeded.
C14_RetryBudgetPerAddress ==
    /\ \A e \in Paired :
         LET mine == AttemptsOf(e.mac_address) IN
           /\ Len(mine) <= Retries
           /\ \A i \in 1..(Len(mine) - 1) : mine[i].result = "host_down"
    /\ disc_pc = "returned" =>
         \A e \in Wanted :
           LET mine == AttemptsOf(e.mac_address) IN
             /\ Len(mine) >= 1
             /\ mine[Len(mine)].result \in {"connected", "host_down"}
             /\ mine[Len(mine)].result = "host_down" => Len(mine) = Retries
             /\ e.mac_address \in Returned <=> mine[Len(mine)].result = "connected"

\* a call has returned a device that connected at its last attempt after
\* HostDown at all the others, the address before it having failed
\* `retries` times
C14_Witness ==
    /\ disc_pc = "returned"
    /\ Retries >= 2
    /\ \E a \in Returned :
         /\ Len(AttemptsOf(a)) = Retries
         /\ AttemptsOf(a)[Retries].result = "connected"
    /\ \E e \in Wanted :
         /\ e.mac_address \notin Returned
         /\ Len(AttemptsOf(e.mac_address)) = Retries
         /\ attempts[1].address = e.mac_address

----------------------------------------------------------------------------
(* One Device alone: one call of Device.receive_data, socket.recv by        *)
(* socket.recv, against a peer in any state.                                *)

\* the peer has sent at most this many bytes that are not yet read
MaxPending == 2
\* socket.recv is called at most this many times in the call
MaxRecv == 3

\* The peer: up and silent once its bytes are read, gone after an orderly
\* shutdown (end of stream), not connected, or in a state for which the
\* transport has no category.
PeerStates == {"up", "eof", "not_connected", "broken"}

\* What socket.recv(1024) of the non-blocking socket does: it returns the
\* bytes there are, or b'' at the end of the stream, or raises
\* BluetoothError for NoData, NotConnected or another errno.
RecvOutcome(t) ==
    IF t.pending # <<>> THEN "bytes"
    ELSE IF t.peer = "up" THEN "no_data"
    ELSE IF t.peer = "eof" THEN "zero"
    ELSE IF t.peer = "not_connected" THEN "not_connected"
    ELSE "other"

\* What socket.getpeername() may do in is_socket_still_connected: return,
\* raise BluetoothError with errno 107, or raise another BluetoothError
GetpeernameOutcomes(t) ==
    IF t.peer = "up" THEN {"connected"}
    ELSE IF t.peer = "eof" THEN {"connected", "disconnected"}
    ELSE IF t.peer = "not_connected" THEN {"disconnected"}
    ELSE {"connected", "disconnected", "error"}

DeviceInit ==
    /\ pc_fg = "start"
    /\ pc_bg = "idle"
    /\ should_be_discovering = FALSE
    /\ new_devices = <<>>
    /\ devices = {}
    /\ by_socket = EmptyDict
    /\ by_address = EmptyDict
    /\ by_name = EmptyDict
    /\ device = <<NewDevice(1, "AA:1", NameSoil1)>>
    /\ socket_closes = <<0>>
    /\ soil_addresses_and_names = <<>>
    /\ conn_new_devices = <<>>
    /\ retry = 0
    /\ polled = {}
    /\ FramerIdle
    /\ ClockIdle
    /\ BatchIdle
    /\ DiscoveryIdle
    /\ recv_pc = "idle"
    /\ transport \in [peer : PeerStates, pending : ByteStrings(MaxPending)]
    /\ recv_new_data = <<>>
    /\ recv_log = <<>>
    /\ received = NoReceived

\* Device.receive_data is called; get_new_data starts with new_data = b""
Receive_call ==
    /\ recv_pc = "idle"
    /\ recv_pc' = "recv"
    /\ recv_new_data' = <<>>
    /\ recv_log' = <<>>
    /\ UNCHANGED <<transport, received>>
    /\ UNCHANGED <<server_vars, framer_vars, clock_vars, batch_vars, discovery_vars>>

\* get_new_data, one turn of `while True`: new_data += self.socket.recv(1024),
\* and `except bt.BluetoothError: break`, whatever the errno
Socket_recv ==
    /\ recv_pc = "recv"
    /\ Len(recv_log) < MaxRecv
    /\ LET outcome == RecvOutcome(transport) IN
         /\ recv_log' = Append(recv_log, outcome)
         /\ IF outcome = "bytes"
            THEN \E k \in 1..Len(transport.pending) :
                   /\ recv_new_data' = recv_new_data \o SubSeq(transport.pending, 1, k)
                   /\ transport' = [transport EXCEPT
                                      !.pending = SubSeq(@, k + 1, Len(@))]
                   /\ UNCHANGED recv_pc
            ELSE IF outcome = "zero"
            THEN UNCHANGED <<recv_new_data, transport, recv_pc>>
            ELSE /\ recv_pc' = "drained"
                 /\ UNCHANGED <<recv_new_data, transport>>
    /\ UNCHANGED received
    /\ UNCHANGED <<server_vars, framer_vars, clock_vars, batch_vars, discovery_vars>>

\* Device.receive_data after get_new_data: close_if_closed when nothing
\* was read, append_socket_data otherwise
Receive_finish ==
    /\ recv_pc = "drained"
    /\ \E peer \in (IF recv_new_data = <<>> THEN GetpeernameOutcomes(transport)
                   ELSE {"unchecked"}) :
         LET w == Device_receive_data(World, 1, [data |-> recv_new_data, peer |-> peer]) IN
           /\ SetWorld(w)
           /\ received' = [returned |-> ~w.raised, raised |-> w.raised,
                           lines |-> IF w.raised THEN <<>> ELSE w.data[1],
                           peer |-> peer]
           /\ recv_pc' = IF w.raised THEN "raised" ELSE "returned"
    /\ UNCHANGED <<transport, recv_new_data, recv_log>>
    /\ UNCHANGED <<pc_fg, pc_bg, should_be_discovering, new_devices, cycle_vars, polled>>
    /\ UNCHANGED <<framer_vars, clock_vars, batch_vars, discovery_vars>>

DeviceNext == Receive_call \/ Socket_recv \/ Receive_finish

DeviceSpec == DeviceInit /\ [][DeviceNext]_vars

\* C17: a call of Device.receive_data turns connected from true to false
\* only when it read no byte and getpeername reported the peer as not
\* connected, and then it returns no line; a call that returns after
\* reading a byte, or after finding the peer connected, leaves connected
\* true.
C17_DisconnectOnlyOnEmptyReadAndDeadPeer ==
    /\ [][(device[1].connected /\ ~device'[1].connected) =>
            /\ recv_new_data = <<>>
            /\ received'.peer = "disconnected"
            /\ received'.returned
            /\ received'.lines = <<>>]_vars
    /\ []((received.returned /\ (recv_new_data # <<>> \/ received.peer = "connected"))
            => device[1].connected)
    /\ []((received.returned /\ recv_new_data = <<>> /\ received.peer = "disconnected")
            => ~device[1].connected)

\* a call has read nothing, found the peer not connected and closed the
\* Device
C17_Witness ==
    /\ recv_pc = "returned"
    /\ recv_new_data = <<>>
    /\ received.peer = "disconnected"
    /\ ~device[1].connected
    /\ socket_closes[1] = 1

\* C19: every socket.recv of get_new_data either ends the loop or takes
\* bytes from the finite supply the peer has sent, so that the loop ends.
C19_EveryRecvEndsOrConsumes ==
    [][(recv_pc = "recv" /\ Len(recv_log') > Len(recv_log)) =>
         \/ recv_pc' # "recv"
         \/ Len(transport'.pending) < Len(transport.pending)]_vars

\* C20: a call of Device.receive_data in which socket.recv failed with an
\* error that is neither NoData nor NotConnected does not return.
C20_UnexpectedReadFailurePropagates ==
    recv_pc = "returned" => \A i \in DOMAIN recv_log : recv_log[i] # "other"

====
